---- MODULE Spec2Model ----
(***************************************************************************)
(* SimpleVector<Type> (src/simple_vector.h) as a state machine.           *)
(*                                                                         *)
(* Two vector objects, "a" and "b", live side by side.  Every constructor, *)
(* assignment, mutator, accessor and comparison of the class is one       *)
(* action.  A vector is the record of its three members; the ArrayPtr     *)
(* member is the sequence of cells reachable through its raw pointer plus *)
(* the number of cells that were really allocated (alloc).  Positions     *)
(* (iterators) are offsets from begin().  Indices in the operators are    *)
(* 0-based as in the source; TLA+ sequences are 1-based, so cell i of the *)
(* source is arrayPtr_[i + 1] here.                                       *)
(*                                                                         *)
(* An access past the allocation is undefined behaviour.  The model makes *)
(* it a choice between the run trapping at the access and the access      *)
(* going through to the memory that follows the buffer, which may be a    *)
(* cell of the other vector's buffer.  After such a step nothing more is  *)
(* modelled (ub = TRUE disables every action).                            *)
(*                                                                         *)
(* ArrayPtr's constructor may fail to allocate: a call that constructs a  *)
(* non-empty ArrayPtr either goes on or ends there with std::bad_alloc,   *)
(* the members being what the statements before the allocation made them. *)
(* A constructor that fails constructs no object and is no step here.     *)
(*                                                                         *)
(* Spec lets every call act on the two vectors in any order.  PushSpec is *)
(* one run on vector "a": it is constructed, or default-constructed and   *)
(* reserved, and then only PushBack is called; run counts those calls.    *)
(***************************************************************************)
EXTENDS Integers, Sequences, FiniteSets, TLC

\* Largest capacity the model lets a vector reach.
MaxCap == 2

\* The element type: Type() and one more value, above it in Type's order.
Values == {0, 1}

\* Type(): the value-initialised element.
Default == 0

Vecs == {"a", "b"}

\* Offsets from begin() handed to Insert and Erase, one before begin() and
\* one past the largest end() included.
PosRange == (0 - 1)..(MaxCap + 1)

IndexRange == 0..MaxCap

SizeRange == 0..MaxCap

InitLists == UNION {[1..n -> Values] : n \in 0..MaxCap}

\* size_t arithmetic is modular; the width is scaled down from 64 bits, every
\* size of the model stays far below it.
SizeTModulus == 2 ^ 16

ToSizeT(d) == d % SizeTModulus

Max(x, y) == IF x >= y THEN x ELSE y

\* Longest run of PushBack calls PushSpec follows.
MaxPushes == 5

\* Capacities reserved at the start of such a run.
ReserveRange == 0..(MaxPushes - 1)

VARIABLES
    vec,    \* vec[v]: the members of vector v
    op,     \* the last call: its name and its result
    ub,     \* TRUE once an access went past an allocation
    run     \* PushSpec: how the run began and the PushBack calls made since

vars == <<vec, op, ub, run>>

-----------------------------------------------------------------------------
(* ArrayPtr<Type> and the <algorithm> loops the vector runs on it *)

\* ArrayPtr(size): size default-constructed cells, none for size 0.
RECURSIVE ArrayPtrNew(_)
ArrayPtrNew(size) ==
    IF size = 0 THEN <<>> ELSE Append(ArrayPtrNew(size - 1), Default)

Read(arr, i) == arr[i + 1]

\* A store to cell i.  i = Len(arr) is the cell that follows the sequence:
\* the sequence grows, the allocation (alloc) does not.
Write(arr, i, x) ==
    IF i < Len(arr) THEN [arr EXCEPT ![i + 1] = x] ELSE Append(arr, x)

\* std::fill(&arr[first], &arr[last], x)
RECURSIVE Fill(_, _, _, _)
Fill(arr, first, last, x) ==
    IF first >= last THEN arr
    ELSE Fill(Write(arr, first, x), first + 1, last, x)

\* std::copy / std::move from [first, last) of src to dst, starting at
\* d_first, front to back; src and dst are different buffers.
RECURSIVE Copy(_, _, _, _, _)
Copy(src, first, last, dst, d_first) ==
    IF first >= last THEN dst
    ELSE Copy(src, first + 1, last, Write(dst, d_first, Read(src, first)), d_first + 1)

\* std::move within one buffer, front to back.
RECURSIVE MoveForward(_, _, _, _)
MoveForward(arr, first, last, d_first) ==
    IF first >= last THEN arr
    ELSE MoveForward(Write(arr, d_first, Read(arr, first)), first + 1, last, d_first + 1)

\* std::copy_backward / std::move_backward within one buffer: the range
\* [first, last) is copied so that it ends at d_last, back to front.
RECURSIVE CopyBackward(_, _, _, _)
CopyBackward(arr, first, last, d_last) ==
    IF first >= last THEN arr
    ELSE CopyBackward(Write(arr, d_last - 1, Read(arr, last - 1)), first, last - 1, d_last - 1)

-----------------------------------------------------------------------------
(* Constructors *)

\* SimpleVector() noexcept = default
DefaultCtor == [arrayPtr_ |-> <<>>, alloc |-> 0, size_ |-> 0, capacity_ |-> 0]

\* explicit SimpleVector(size_t size)
SizeCtor(size) ==
    LET new_arr == ArrayPtrNew(size) IN
    [arrayPtr_ |-> Fill(new_arr, 0, size, Default), alloc |-> size,
     size_ |-> size, capacity_ |-> size]

\* SimpleVector(size_t size, const Type& value)
SizeValueCtor(size, value) ==
    LET new_arr == ArrayPtrNew(size) IN
    [arrayPtr_ |-> Fill(new_arr, 0, size, value), alloc |-> size,
     size_ |-> size, capacity_ |-> size]

\* SimpleVector(std::initializer_list<Type> init)
InitListCtor(init) ==
    LET new_arr == ArrayPtrNew(Len(init)) IN
    [arrayPtr_ |-> Copy(init, 0, Len(init), new_arr, 0), alloc |-> Len(init),
     size_ |-> Len(init), capacity_ |-> Len(init)]

\* The reserving constructor with size_(res.Get()) among its initialisers.
ReserveCtorSized(res) ==
    LET new_arr == ArrayPtrNew(res) IN
    [arrayPtr_ |-> Fill(new_arr, 0, res, Default), alloc |-> res,
     size_ |-> res, capacity_ |-> res]

\* explicit SimpleVector(ReserveProxyObj res)
ReserveCtor(res) ==
    LET new_arr == ArrayPtrNew(res) IN
    [arrayPtr_ |-> Fill(new_arr, 0, res, Default), alloc |-> res,
     size_ |-> 0, capacity_ |-> res]

\* SimpleVector(const SimpleVector& other): the new buffer has other.size_
\* cells, the capacity is other.capacity_.
CopyCtor(other) ==
    LET other_arr == ArrayPtrNew(other.size_) IN
    [arrayPtr_ |-> Copy(other.arrayPtr_, 0, other.size_, other_arr, 0),
     alloc |-> other.size_,
     size_ |-> other.size_, capacity_ |-> other.capacity_]

-----------------------------------------------------------------------------
(* Mutators on one vector *)

\* Reserve that swaps the new buffer in without moving the elements.
ReserveNoMove(v, new_capacity) ==
    IF new_capacity <= v.capacity_ THEN v
    ELSE [v EXCEPT !.arrayPtr_ = ArrayPtrNew(new_capacity),
                   !.alloc = new_capacity,
                   !.capacity_ = new_capacity]

\* void Reserve(size_t new_capacity)
Reserve(v, new_capacity) ==
    IF new_capacity <= v.capacity_ THEN v
    ELSE LET new_arrayPtr == ArrayPtrNew(new_capacity) IN
         [v EXCEPT !.arrayPtr_ = Copy(v.arrayPtr_, 0, v.size_, new_arrayPtr, 0),
                   !.alloc = new_capacity,
                   !.capacity_ = new_capacity]

\* Reserve constructs an ArrayPtr of new_capacity > capacity_ >= 0 cells.
ReserveAllocates(v, new_capacity) == ~(new_capacity <= v.capacity_)

\* The members when that constructor throws: no statement of Reserve has
\* assigned anything yet.
ReserveBadAlloc(v, new_capacity) == v

\* PushBack that grows by one cell.
RECURSIVE PushBackGrowsByOne(_, _)
PushBackGrowsByOne(v, item) ==
    IF v.size_ < v.capacity_
    THEN [v EXCEPT !.arrayPtr_ = Write(@, v.size_, item), !.size_ = @ + 1]
    ELSE PushBackGrowsByOne(Reserve(v, v.capacity_ + 1), item)

\* void PushBack(const Type& item)
RECURSIVE PushBack(_, _)
PushBack(v, item) ==
    IF v.size_ < v.capacity_
    THEN [v EXCEPT !.arrayPtr_ = Write(@, v.size_, item), !.size_ = @ + 1]
    ELSE PushBack(Reserve(v, Max(v.capacity_ * 2, 1)), item)

\* void PushBack(Type&& item)
RECURSIVE PushBackRv(_, _)
PushBackRv(v, item) ==
    IF v.size_ < v.capacity_
    THEN [v EXCEPT !.arrayPtr_ = Write(@, v.size_, item), !.size_ = @ + 1]
    ELSE PushBackRv(Reserve(v, Max(v.capacity_ * 2, 1)), item)

\* PushBack allocates through Reserve when there is no spare cell; the
\* second PushBack, after the Reserve, finds one.
PushBackAllocates(v) ==
    ~(v.size_ < v.capacity_) /\ ReserveAllocates(v, Max(v.capacity_ * 2, 1))

PushBackBadAlloc(v, item) == ReserveBadAlloc(v, Max(v.capacity_ * 2, 1))

PushBackRvBadAlloc(v, item) == ReserveBadAlloc(v, Max(v.capacity_ * 2, 1))

\* The store arrayPtr_[size_] = item of PushBack falls past the allocation.
PushBackOob(v) == v.size_ < v.capacity_ /\ v.size_ >= v.alloc

\* Clear that gives the capacity up.
ClearReleases(v) == [v EXCEPT !.size_ = 0, !.capacity_ = 0]

\* void Clear() noexcept
Clear(v) == [v EXCEPT !.size_ = 0]

\* void PopBack() noexcept
PopBack(v) == IF v.size_ = 0 THEN v ELSE [v EXCEPT !.size_ = @ - 1]

\* Resize that grows without reserving first.
ResizeNoReserve(v, new_size) ==
    IF new_size <= v.size_ THEN [v EXCEPT !.size_ = new_size]
    ELSE [v EXCEPT !.arrayPtr_ = Fill(@, v.size_, new_size, Default),
                   !.size_ = new_size]

\* void Resize(size_t new_size)
Resize(v, new_size) ==
    IF new_size <= v.size_ THEN [v EXCEPT !.size_ = new_size]
    ELSE IF new_size <= v.capacity_
    THEN [v EXCEPT !.arrayPtr_ = Fill(@, v.size_, new_size, Default),
                   !.size_ = new_size]
    ELSE LET new_capacity == Max(new_size, 2 * v.capacity_)
             r == Reserve(v, new_capacity) IN
         [r EXCEPT !.arrayPtr_ = Fill(@, v.size_, new_size, Default),
                   !.size_ = new_size]

\* Resize allocates through Reserve in its third branch.
ResizeAllocates(v, new_size) ==
    /\ ~(new_size <= v.size_)
    /\ ~(new_size <= v.capacity_)
    /\ ReserveAllocates(v, Max(new_size, 2 * v.capacity_))

\* Resize that sets size_ before it reserves.
ResizeBadAllocSizeFirst(v, new_size) ==
    [ReserveBadAlloc(v, Max(new_size, 2 * v.capacity_)) EXCEPT !.size_ = new_size]

\* The members when the Reserve of Resize throws: the fill and the
\* assignment to size_ come after it.
ResizeBadAlloc(v, new_size) ==
    ReserveBadAlloc(v, Max(new_size, 2 * v.capacity_))

\* The std::fill of Resize's second branch reaches past the allocation.
ResizeOob(v, new_size) ==
    new_size > v.size_ /\ new_size <= v.capacity_ /\ new_size > v.alloc

\* Iterator Insert(ConstIterator pos, const Type& value): the range check.
\* dist is a signed std::distance; the comparison with size_ is made in
\* size_t.
InsertThrows(v, dist) == (dist < 0) \/ (ToSizeT(dist) > v.size_)

\* Iterator Insert(ConstIterator pos, const Type& value), past the check.
Insert(v, dist, value) ==
    IF v.capacity_ = 0
    THEN LET new_arrayPtr == ArrayPtrNew(1) IN
         [arrayPtr_ |-> Write(new_arrayPtr, 0, value), alloc |-> 1,
          size_ |-> v.size_ + 1, capacity_ |-> v.capacity_ + 1]
    ELSE IF v.size_ = v.capacity_
    THEN LET new_arrayPtr == ArrayPtrNew(2 * v.capacity_)
             head == Copy(v.arrayPtr_, 0, dist, new_arrayPtr, 0)
             placed == Write(head, dist, value)
         IN [arrayPtr_ |-> Copy(v.arrayPtr_, dist, v.size_, placed, dist + 1),
             alloc |-> 2 * v.capacity_,
             size_ |-> v.size_ + 1, capacity_ |-> v.capacity_ * 2]
    ELSE LET shifted == CopyBackward(v.arrayPtr_, dist, v.size_, v.size_ + 1) IN
         [v EXCEPT !.arrayPtr_ = Write(shifted, dist, value), !.size_ = @ + 1]

\* The iterator Insert returns, as an offset from the new begin().
InsertRet(v, dist) == IF v.capacity_ = 0 THEN 0 ELSE dist

\* Iterator Insert(ConstIterator pos, Type&& value)
InsertRvThrows(v, dist) == (dist < 0) \/ (ToSizeT(dist) > v.size_)

InsertRv(v, dist, value) ==
    IF v.capacity_ = 0
    THEN LET new_arrayPtr == ArrayPtrNew(1) IN
         [arrayPtr_ |-> Write(new_arrayPtr, 0, value), alloc |-> 1,
          size_ |-> v.size_ + 1, capacity_ |-> v.capacity_ + 1]
    ELSE IF v.size_ = v.capacity_
    THEN LET new_arrayPtr == ArrayPtrNew(2 * v.capacity_)
             head == Copy(v.arrayPtr_, 0, dist, new_arrayPtr, 0)
             placed == Write(head, dist, value)
         IN [arrayPtr_ |-> Copy(v.arrayPtr_, dist, v.size_, placed, dist + 1),
             alloc |-> 2 * v.capacity_,
             size_ |-> v.size_ + 1, capacity_ |-> v.capacity_ * 2]
    ELSE LET shifted == CopyBackward(v.arrayPtr_, dist, v.size_, v.size_ + 1) IN
         [v EXCEPT !.arrayPtr_ = Write(shifted, dist, value), !.size_ = @ + 1]

InsertRvRet(v, dist) == IF v.capacity_ = 0 THEN 0 ELSE dist

\* Insert constructs an ArrayPtr in its first two branches, of 1 and of
\* 2 * capacity_ > 0 cells, before any other statement of the branch.
InsertAllocates(v) == v.capacity_ = 0 \/ v.size_ = v.capacity_

InsertBadAlloc(v, dist, value) == v

InsertRvBadAlloc(v, dist, value) == v

\* The in-place branch of Insert stores to cell size_, which is past the
\* allocation when the buffer is shorter than capacity_.
InsertOob(v) == v.capacity_ # 0 /\ v.size_ # v.capacity_ /\ v.size_ >= v.alloc

\* The value that store carries: the last element, or value when pos is end().
InsertOobValue(v, dist, value) ==
    IF dist < v.size_ THEN Read(v.arrayPtr_, v.size_ - 1) ELSE value

\* The range check of Erase letting end() through.
EraseThrowsPastEnd(v, dist) == (ToSizeT(dist) < 0) \/ (ToSizeT(dist) > v.size_)

\* Iterator Erase(ConstIterator pos): the range check.  dist is a size_t.
EraseThrows(v, dist) == (ToSizeT(dist) < 0) \/ (ToSizeT(dist) >= v.size_)

\* Erase that drops the last element instead of the one at pos.
EraseNoShift(v, dist) == [v EXCEPT !.size_ = @ - 1]

\* Iterator Erase(ConstIterator pos), past the check.
Erase(v, dist) ==
    [v EXCEPT !.arrayPtr_ = MoveForward(@, dist + 1, v.size_, dist),
              !.size_ = @ - 1]

EraseRet(v, dist) == dist

\* Type& At(size_t index)
AtThrows(v, index) == index >= v.size_

At(v, index) == Read(v.arrayPtr_, index)

\* Type& operator[](size_t index) noexcept
Index(v, index) == Read(v.arrayPtr_, index)

-----------------------------------------------------------------------------
(* Operations on two vectors; each yields the pair <<this, other>> *)

\* void swap(SimpleVector& other) noexcept
Swap(this, other) ==
    <<[arrayPtr_ |-> other.arrayPtr_, alloc |-> other.alloc,
       size_ |-> other.size_, capacity_ |-> other.capacity_],
      [arrayPtr_ |-> this.arrayPtr_, alloc |-> this.alloc,
       size_ |-> this.size_, capacity_ |-> this.capacity_]>>

\* SimpleVector(SimpleVector&& other): the members start as the default
\* member initialisers give them, then the buffers are swapped.
MoveCtor(other) ==
    <<[arrayPtr_ |-> other.arrayPtr_, alloc |-> other.alloc,
       size_ |-> other.size_, capacity_ |-> other.capacity_],
      [arrayPtr_ |-> DefaultCtor.arrayPtr_, alloc |-> DefaultCtor.alloc,
       size_ |-> 0, capacity_ |-> 0]>>

\* Move assignment that leaves rhs its capacity.
MoveAssignKeepsCapacity(this, rhs) ==
    <<[arrayPtr_ |-> rhs.arrayPtr_, alloc |-> rhs.alloc,
       size_ |-> rhs.size_, capacity_ |-> rhs.capacity_],
      [arrayPtr_ |-> this.arrayPtr_, alloc |-> this.alloc,
       size_ |-> 0, capacity_ |-> rhs.capacity_]>>

\* SimpleVector& operator=(SimpleVector&& rhs) noexcept, this and rhs
\* different objects: rhs keeps the buffer this owned.
MoveAssign(this, rhs) ==
    <<[arrayPtr_ |-> rhs.arrayPtr_, alloc |-> rhs.alloc,
       size_ |-> rhs.size_, capacity_ |-> rhs.capacity_],
      [arrayPtr_ |-> this.arrayPtr_, alloc |-> this.alloc,
       size_ |-> 0, capacity_ |-> 0]>>

\* The same on one object: the swap is with itself and each std::exchange
\* returns the value that is then assigned back.
MoveAssignSelf(this) == this

\* SimpleVector& operator=(const SimpleVector& rhs), this != &rhs: the copy
\* is swapped in and the old members die with it.
CopyAssign(this, rhs) ==
    LET copy == CopyCtor(rhs) IN Swap(this, copy)[1]

\* this == &rhs
CopyAssignSelf(this) == this

\* The copy constructor constructs ArrayPtr(other.size_); an ArrayPtr of 0
\* cells allocates nothing.
CopyCtorAllocates(other) == other.size_ > 0

\* The members of this when the copy constructor throws inside operator=:
\* the swap has not run.
CopyAssignBadAlloc(this, rhs) == this

-----------------------------------------------------------------------------
(* Comparisons.  g is what the memory that follows rhs's allocation holds, *)
(* should a comparison read it.                                            *)

RhsRead(rhs, g, i) ==
    IF i < rhs.alloc THEN Read(rhs.arrayPtr_, i) ELSE g[i - rhs.alloc + 1]

\* std::equal(lhs.begin(), lhs.end(), rhs.begin()) from offset i on
RECURSIVE StdEqual(_, _, _, _)
StdEqual(lhs, rhs, g, i) ==
    IF i >= lhs.size_ THEN TRUE
    ELSE IF Read(lhs.arrayPtr_, i) # RhsRead(rhs, g, i) THEN FALSE
    ELSE StdEqual(lhs, rhs, g, i + 1)

\* The offsets of rhs that std::equal reads before it returns.
RECURSIVE StdEqualReads(_, _, _, _)
StdEqualReads(lhs, rhs, g, i) ==
    IF i >= lhs.size_ THEN {}
    ELSE IF Read(lhs.arrayPtr_, i) # RhsRead(rhs, g, i) THEN {i}
    ELSE {i} \cup StdEqualReads(lhs, rhs, g, i + 1)

\* std::lexicographical_compare(lhs.begin(), lhs.end(), rhs.begin(), rhs.end())
RECURSIVE StdLexicographicalCompare(_, _, _)
StdLexicographicalCompare(lhs, rhs, i) ==
    IF i < lhs.size_ /\ i < rhs.size_
    THEN IF Read(lhs.arrayPtr_, i) < Read(rhs.arrayPtr_, i) THEN TRUE
         ELSE IF Read(rhs.arrayPtr_, i) < Read(lhs.arrayPtr_, i) THEN FALSE
         ELSE StdLexicographicalCompare(lhs, rhs, i + 1)
    ELSE i >= lhs.size_ /\ i < rhs.size_

\* operator< with the sizes compared first.
OpLtSizeFirst(lhs, rhs) ==
    IF lhs.size_ # rhs.size_ THEN lhs.size_ < rhs.size_
    ELSE StdLexicographicalCompare(lhs, rhs, 0)

\* operator==; same says that lhs and rhs are one object.
OpEq(lhs, rhs, same, g) == same \/ StdEqual(lhs, rhs, g, 0)

\* operator!=
OpNe(lhs, rhs, same, g) == ~OpEq(lhs, rhs, same, g)

\* operator<
OpLt(lhs, rhs) == StdLexicographicalCompare(lhs, rhs, 0)

\* operator<=
OpLe(lhs, rhs, same, g) == OpLt(lhs, rhs) \/ OpEq(lhs, rhs, same, g)

\* operator>=
OpGe(lhs, rhs) == ~OpLt(lhs, rhs)

\* operator>
OpGt(lhs, rhs, same, g) == OpGe(lhs, rhs) /\ OpNe(lhs, rhs, same, g)

\* operator== reads rhs past its allocation.
OpEqOob(lhs, rhs, same, g) ==
    ~same /\ \E i \in StdEqualReads(lhs, rhs, g, 0) : i >= rhs.alloc

\* What may follow rhs's allocation, as far as lhs.size_ reaches.
Garbage(lhs, rhs) ==
    [1..Max(lhs.size_ - rhs.alloc, 0) -> Values]

-----------------------------------------------------------------------------
(* The record of the last call *)

NoCmp == [eq |-> FALSE, ne |-> FALSE, lt |-> FALSE, le |-> FALSE,
          gt |-> FALSE, ge |-> FALSE]

\* A call that returned normally and yields no value.
Call(name) ==
    [name |-> name, ret |-> 0, threw |-> FALSE, bad_alloc |-> FALSE,
     fault |-> FALSE, cmp |-> NoCmp]

\* run outside PushSpec, and in PushSpec before vector "a" is constructed.
NoRun == [from |-> "none", reserved |-> 0, pushes |-> 0, changes |-> 0]

Other(t) == CHOOSE o \in Vecs : o # t

\* What a store of x past the end of another buffer may leave of vector o:
\* o as it was, or o with one cell of its buffer overwritten by x.
Clobbered(o, x) ==
    {o} \cup {[o EXCEPT !.arrayPtr_[k] = x] : k \in 1..Len(o.arrayPtr_)}

\* A call on vector t that stores x past t's allocation.  Either the run
\* traps at the store, or the store goes through: the call completes with
\* the result r, and the memory it hit may belong to the other vector.  A
\* store through the null pointer of an empty ArrayPtr only traps.
OobStore(t, r, x, call) ==
    /\ ub' = TRUE
    /\ run' = run
    /\ \/ /\ vec' = vec
          /\ op' = [call EXCEPT !.fault = TRUE]
       \/ /\ vec[t].alloc > 0
          /\ \E c \in Clobbered(vec[Other(t)], x) :
               /\ vec' = [vec EXCEPT ![t] = r, ![Other(t)] = c]
               /\ op' = call

\* A call on vector t that stays inside the buffers.
Done(t, r, call) ==
    /\ vec' = [vec EXCEPT ![t] = r]
    /\ op' = call
    /\ ub' = FALSE
    /\ run' = run

\* A call on vector t that ends with std::bad_alloc, leaving t's members r.
Failed(t, r, call) ==
    /\ vec' = [vec EXCEPT ![t] = r]
    /\ op' = [call EXCEPT !.bad_alloc = TRUE]
    /\ ub' = FALSE
    /\ run' = run

-----------------------------------------------------------------------------
(* Actions: one per constructor, assignment, mutator, accessor, comparison *)

Init ==
    /\ vec = [v \in Vecs |-> DefaultCtor]
    /\ op = Call("Init")
    /\ ub = FALSE
    /\ run = NoRun

\* A constructor makes a new object: it acts on a name whose vector is still
\* as the declaration left it.
Fresh(t) == vec[t] = DefaultCtor

DefaultCtorStep(t) ==
    /\ ~ub
    /\ Fresh(t)
    /\ Done(t, DefaultCtor, Call("DefaultCtor"))

SizeCtorStep(t, size) ==
    /\ ~ub
    /\ Fresh(t)
    /\ Done(t, SizeCtor(size), Call("SizeCtor"))

SizeValueCtorStep(t, size, value) ==
    /\ ~ub
    /\ Fresh(t)
    /\ Done(t, SizeValueCtor(size, value), Call("SizeValueCtor"))

InitListCtorStep(t, init) ==
    /\ ~ub
    /\ Fresh(t)
    /\ Done(t, InitListCtor(init), Call("InitListCtor"))

ReserveCtorStep(t, res) ==
    /\ ~ub
    /\ Fresh(t)
    /\ Done(t, ReserveCtor(res), Call("ReserveCtor"))

CopyCtorStep(t, o) ==
    /\ ~ub
    /\ Fresh(t)
    /\ t # o
    /\ Done(t, CopyCtor(vec[o]), Call("CopyCtor"))

MoveCtorStep(t, o) ==
    /\ ~ub
    /\ Fresh(t)
    /\ t # o
    /\ vec' = [vec EXCEPT ![t] = MoveCtor(vec[o])[1], ![o] = MoveCtor(vec[o])[2]]
    /\ op' = Call("MoveCtor")
    /\ ub' = FALSE
    /\ run' = run

CopyAssignStep(t, o) ==
    /\ ~ub
    /\ \/ Done(t, IF t = o THEN CopyAssignSelf(vec[t]) ELSE CopyAssign(vec[t], vec[o]),
               Call("CopyAssign"))
       \/ /\ t # o
          /\ CopyCtorAllocates(vec[o])
          /\ Failed(t, CopyAssignBadAlloc(vec[t], vec[o]), Call("CopyAssign"))

MoveAssignStep(t, o) ==
    /\ ~ub
    /\ IF t = o
       THEN vec' = [vec EXCEPT ![t] = MoveAssignSelf(vec[t])]
       ELSE vec' = [vec EXCEPT ![t] = MoveAssign(vec[t], vec[o])[1],
                               ![o] = MoveAssign(vec[t], vec[o])[2]]
    /\ op' = Call("MoveAssign")
    /\ ub' = FALSE
    /\ run' = run

SwapStep(t, o) ==
    /\ ~ub
    /\ IF t = o
       THEN vec' = [vec EXCEPT ![t] = Swap(vec[t], vec[t])[1]]
       ELSE vec' = [vec EXCEPT ![t] = Swap(vec[t], vec[o])[1],
                               ![o] = Swap(vec[t], vec[o])[2]]
    /\ op' = Call("swap")
    /\ ub' = FALSE
    /\ run' = run

\* The capacity a growing call asks for stays within the model's bound.
Fits(capacity) == capacity <= MaxCap

PushBackStep(t, item) ==
    /\ ~ub
    /\ vec[t].size_ < vec[t].capacity_ \/ Fits(Max(vec[t].capacity_ * 2, 1))
    /\ LET call == Call("PushBack") IN
       \/ IF PushBackOob(vec[t])
          THEN OobStore(t, PushBack(vec[t], item), item, call)
          ELSE Done(t, PushBack(vec[t], item), call)
       \/ /\ PushBackAllocates(vec[t])
          /\ Failed(t, PushBackBadAlloc(vec[t], item), call)

PushBackRvStep(t, item) ==
    /\ ~ub
    /\ vec[t].size_ < vec[t].capacity_ \/ Fits(Max(vec[t].capacity_ * 2, 1))
    /\ LET call == Call("PushBack") IN
       \/ IF PushBackOob(vec[t])
          THEN OobStore(t, PushBackRv(vec[t], item), item, call)
          ELSE Done(t, PushBackRv(vec[t], item), call)
       \/ /\ PushBackAllocates(vec[t])
          /\ Failed(t, PushBackRvBadAlloc(vec[t], item), call)

InsertStep(t, dist, value) ==
    /\ ~ub
    /\ vec[t].size_ < vec[t].capacity_ \/ Fits(Max(vec[t].capacity_ * 2, 1))
    /\ LET call == Call("Insert") IN
       IF InsertThrows(vec[t], dist)
       THEN Done(t, vec[t], [call EXCEPT !.threw = TRUE])
       ELSE LET r == Insert(vec[t], dist, value)
                ret == [call EXCEPT !.ret = InsertRet(vec[t], dist)] IN
            \/ IF InsertOob(vec[t])
               THEN OobStore(t, r, InsertOobValue(vec[t], dist, value), ret)
               ELSE Done(t, r, ret)
            \/ /\ InsertAllocates(vec[t])
               /\ Failed(t, InsertBadAlloc(vec[t], dist, value), call)

InsertRvStep(t, dist, value) ==
    /\ ~ub
    /\ vec[t].size_ < vec[t].capacity_ \/ Fits(Max(vec[t].capacity_ * 2, 1))
    /\ LET call == Call("Insert") IN
       IF InsertRvThrows(vec[t], dist)
       THEN Done(t, vec[t], [call EXCEPT !.threw = TRUE])
       ELSE LET r == InsertRv(vec[t], dist, value)
                ret == [call EXCEPT !.ret = InsertRvRet(vec[t], dist)] IN
            \/ IF InsertOob(vec[t])
               THEN OobStore(t, r, InsertOobValue(vec[t], dist, value), ret)
               ELSE Done(t, r, ret)
            \/ /\ InsertAllocates(vec[t])
               /\ Failed(t, InsertRvBadAlloc(vec[t], dist, value), call)

EraseStep(t, dist) ==
    /\ ~ub
    /\ LET call == Call("Erase") IN
       IF EraseThrows(vec[t], dist)
       THEN Done(t, vec[t], [call EXCEPT !.threw = TRUE])
       ELSE Done(t, Erase(vec[t], dist), [call EXCEPT !.ret = EraseRet(vec[t], dist)])

PopBackStep(t) ==
    /\ ~ub
    /\ Done(t, PopBack(vec[t]), Call("PopBack"))

ClearStep(t) ==
    /\ ~ub
    /\ Done(t, Clear(vec[t]), Call("Clear"))

ResizeStep(t, new_size) ==
    /\ ~ub
    /\ new_size <= vec[t].capacity_ \/ Fits(Max(new_size, 2 * vec[t].capacity_))
    /\ LET call == Call("Resize") IN
       \/ IF ResizeOob(vec[t], new_size)
          THEN OobStore(t, Resize(vec[t], new_size), Default, call)
          ELSE Done(t, Resize(vec[t], new_size), call)
       \/ /\ ResizeAllocates(vec[t], new_size)
          /\ Failed(t, ResizeBadAlloc(vec[t], new_size), call)

ReserveStep(t, new_capacity) ==
    /\ ~ub
    /\ \/ Done(t, Reserve(vec[t], new_capacity), Call("Reserve"))
       \/ /\ ReserveAllocates(vec[t], new_capacity)
          /\ Failed(t, ReserveBadAlloc(vec[t], new_capacity), Call("Reserve"))

AtStep(t, index) ==
    /\ ~ub
    /\ LET call == Call("At") IN
       IF AtThrows(vec[t], index)
       THEN Done(t, vec[t], [call EXCEPT !.threw = TRUE])
       ELSE Done(t, vec[t], [call EXCEPT !.ret = At(vec[t], index)])

\* operator[] is called in contract only: index < size.
IndexStep(t, index) ==
    /\ ~ub
    /\ index < vec[t].size_
    /\ Done(t, vec[t], [Call("Index") EXCEPT !.ret = Index(vec[t], index)])

\* v[index] = value through the reference operator[] returns, in contract.
AssignStep(t, index, value) ==
    /\ ~ub
    /\ index < vec[t].size_
    /\ Done(t, [vec[t] EXCEPT !.arrayPtr_ = Write(@, index, value)], Call("Assign"))

\* The six comparison operators on the pair (l, r), in one step.  A read
\* past rhs's allocation traps or yields what the memory there holds (g); a
\* read through the null pointer of an empty ArrayPtr only traps.
CompareStep(l, r) ==
    /\ ~ub
    /\ \E g \in Garbage(vec[l], vec[r]) :
         LET same == (l = r)
             call == [Call("Compare") EXCEPT
                        !.cmp = [eq |-> OpEq(vec[l], vec[r], same, g),
                                 ne |-> OpNe(vec[l], vec[r], same, g),
                                 lt |-> OpLt(vec[l], vec[r]),
                                 le |-> OpLe(vec[l], vec[r], same, g),
                                 gt |-> OpGt(vec[l], vec[r], same, g),
                                 ge |-> OpGe(vec[l], vec[r])]]
         IN IF OpEqOob(vec[l], vec[r], same, g)
            THEN /\ vec' = vec
                 /\ ub' = TRUE
                 /\ run' = run
                 /\ \/ op' = [Call("Compare") EXCEPT !.fault = TRUE]
                    \/ /\ vec[r].alloc > 0
                       /\ op' = call
            ELSE Done(l, vec[l], call)

Next ==
    \/ \E t \in Vecs : DefaultCtorStep(t)
    \/ \E t \in Vecs, n \in SizeRange : SizeCtorStep(t, n)
    \/ \E t \in Vecs, n \in SizeRange, x \in Values : SizeValueCtorStep(t, n, x)
    \/ \E t \in Vecs, init \in InitLists : InitListCtorStep(t, init)
    \/ \E t \in Vecs, n \in SizeRange : ReserveCtorStep(t, n)
    \/ \E t \in Vecs, o \in Vecs : CopyCtorStep(t, o)
    \/ \E t \in Vecs, o \in Vecs : MoveCtorStep(t, o)
    \/ \E t \in Vecs, o \in Vecs : CopyAssignStep(t, o)
    \/ \E t \in Vecs, o \in Vecs : MoveAssignStep(t, o)
    \/ \E t \in Vecs, o \in Vecs : SwapStep(t, o)
    \/ \E t \in Vecs, x \in Values : PushBackStep(t, x)
    \/ \E t \in Vecs, x \in Values : PushBackRvStep(t, x)
    \/ \E t \in Vecs, d \in PosRange, x \in Values : InsertStep(t, d, x)
    \/ \E t \in Vecs, d \in PosRange, x \in Values : InsertRvStep(t, d, x)
    \/ \E t \in Vecs, d \in PosRange : EraseStep(t, d)
    \/ \E t \in Vecs : PopBackStep(t)
    \/ \E t \in Vecs : ClearStep(t)
    \/ \E t \in Vecs, n \in SizeRange : ResizeStep(t, n)
    \/ \E t \in Vecs, n \in SizeRange : ReserveStep(t, n)
    \/ \E t \in Vecs, i \in IndexRange : AtStep(t, i)
    \/ \E t \in Vecs, i \in IndexRange : IndexStep(t, i)
    \/ \E t \in Vecs, i \in IndexRange, x \in Values : AssignStep(t, i, x)
    \/ \E l \in Vecs, r \in Vecs : CompareStep(l, r)

Spec == Init /\ [][Next]_vars

-----------------------------------------------------------------------------
(* PushSpec: vector "a" is made and then grows by PushBack alone *)

\* SimpleVector<Type> a;
RunDefaultCtorStep ==
    /\ ~ub
    /\ run.from = "none"
    /\ vec' = [vec EXCEPT !["a"] = DefaultCtor]
    /\ op' = Call("DefaultCtor")
    /\ ub' = FALSE
    /\ run' = [NoRun EXCEPT !.from = "DefaultCtor"]

\* SimpleVector<Type> a(Reserve(res));
RunReserveCtorStep(res) ==
    /\ ~ub
    /\ run.from = "none"
    /\ vec' = [vec EXCEPT !["a"] = ReserveCtor(res)]
    /\ op' = Call("ReserveCtor")
    /\ ub' = FALSE
    /\ run' = [NoRun EXCEPT !.from = "ReserveCtor", !.reserved = res]

\* a.Reserve(new_capacity) on the default-constructed, still empty a.
RunReserveStep(new_capacity) ==
    /\ ~ub
    /\ run.from = "DefaultCtor" /\ run.pushes = 0
    /\ \/ /\ vec' = [vec EXCEPT !["a"] = Reserve(@, new_capacity)]
          /\ op' = Call("Reserve")
          /\ ub' = FALSE
          /\ run' = [NoRun EXCEPT !.from = "Reserve", !.reserved = new_capacity]
       \/ /\ ReserveAllocates(vec["a"], new_capacity)
          /\ Failed("a", ReserveBadAlloc(vec["a"], new_capacity), Call("Reserve"))

\* run after a PushBack that took a from v to r.
Pushed(v, r) ==
    [run EXCEPT !.pushes = @ + 1,
                !.changes = IF r.capacity_ # v.capacity_ THEN @ + 1 ELSE @]

\* a.PushBack(item).  No vector of this run is a copy: the store of PushBack
\* stays inside the buffer.
RunPushBackStep(item) ==
    /\ ~ub
    /\ run.from # "none" /\ run.pushes < MaxPushes
    /\ ~PushBackOob(vec["a"])
    /\ \/ /\ vec' = [vec EXCEPT !["a"] = PushBack(@, item)]
          /\ op' = Call("PushBack")
          /\ ub' = FALSE
          /\ run' = Pushed(vec["a"], PushBack(vec["a"], item))
       \/ /\ PushBackAllocates(vec["a"])
          /\ Failed("a", PushBackBadAlloc(vec["a"], item), Call("PushBack"))

\* a.PushBack(std::move(item))
RunPushBackRvStep(item) ==
    /\ ~ub
    /\ run.from # "none" /\ run.pushes < MaxPushes
    /\ ~PushBackOob(vec["a"])
    /\ \/ /\ vec' = [vec EXCEPT !["a"] = PushBackRv(@, item)]
          /\ op' = Call("PushBack")
          /\ ub' = FALSE
          /\ run' = Pushed(vec["a"], PushBackRv(vec["a"], item))
       \/ /\ PushBackAllocates(vec["a"])
          /\ Failed("a", PushBackRvBadAlloc(vec["a"], item), Call("PushBack"))

PushNext ==
    \/ RunDefaultCtorStep
    \/ \E res \in ReserveRange : RunReserveCtorStep(res)
    \/ \E c \in ReserveRange : RunReserveStep(c)
    \/ \E x \in Values : RunPushBackStep(x)
    \/ \E x \in Values : RunPushBackRvStep(x)

PushSpec == Init /\ [][PushNext]_vars

-----------------------------------------------------------------------------
(* Observations *)

\* The live content of v: cells [0, size_).
Content(v) == SubSeq(v.arrayPtr_, 1, v.size_)

\* Every state keeps the vectors in this shape.
TypeOK ==
    /\ \A v \in Vecs :
         /\ vec[v].size_ \in 0..(MaxCap + 1)
         /\ vec[v].capacity_ \in 0..MaxCap
         /\ vec[v].alloc \in 0..MaxCap
         /\ vec[v].arrayPtr_ \in Seq(Values)
    /\ ub \in BOOLEAN

\* Until an access leaves a buffer, the sequence is the allocation and
\* the live content lies inside it.
InBounds ==
    ~ub => \A v \in Vecs :
             /\ Len(vec[v].arrayPtr_) = vec[v].alloc
             /\ vec[v].size_ <= vec[v].alloc

\* What a caller can see of v, with the length of the buffer it owns.
Observable(v) ==
    [size |-> v.size_, capacity |-> v.capacity_, content |-> Content(v),
     alloc |-> v.alloc]

\* s with x placed before offset p.
InsertAt(s, p, x) == SubSeq(s, 1, p) \o <<x>> \o SubSeq(s, p + 1, Len(s))

\* s without the element at offset p.
RemoveAt(s, p) == SubSeq(s, 1, p) \o SubSeq(s, p + 2, Len(s))

\* s is lexicographically less than u: they agree on the first k elements
\* and then s ends while u goes on, or s has the smaller element.
LexLess(s, u) ==
    \E k \in 0..Len(s) :
        /\ k <= Len(u)
        /\ \A i \in 1..k : s[i] = u[i]
        /\ \/ k = Len(s) /\ k < Len(u)
           \/ k < Len(s) /\ k < Len(u) /\ s[k + 1] < u[k + 1]

-----------------------------------------------------------------------------
(* C1 *)

\* C1: in every reachable state, after any constructor and any sequence of
\* calls, size <= capacity holds for every vector, the source of a move or
\* swap included.
C1_SizeWithinCapacity ==
    \A v \in Vecs : vec[v].size_ <= vec[v].capacity_

\* A swap has exchanged a full vector and one with spare room.
C1_Witness ==
    /\ op.name = "swap"
    /\ vec["a"].size_ = 2 /\ vec["a"].capacity_ = 2
    /\ vec["b"].size_ = 0 /\ vec["b"].capacity_ = 1

-----------------------------------------------------------------------------
(* C2 *)

\* C2: after any constructor and any mutating call, the number of elements
\* allocated in the buffer a vector owns equals its capacity, for every
\* vector the call touches.
C2_BufferLengthIsCapacity ==
    \A v \in Vecs : vec[v].alloc = vec[v].capacity_

-----------------------------------------------------------------------------
(* C3 *)

\* C3: operator==(l, r) is true exactly when the sizes are equal and the
\* live contents agree element by element, and operator!= is its negation.
C3_EqualityIsSizeAndContent ==
    [][op'.name = "Compare" /\ ~op'.fault =>
       \A l \in Vecs, r \in Vecs :
         CompareStep(l, r) =>
            /\ op'.cmp.eq <=> (/\ vec[l].size_ = vec[r].size_
                               /\ Content(vec[l]) = Content(vec[r]))
            /\ op'.cmp.ne <=> ~op'.cmp.eq]_vars

-----------------------------------------------------------------------------
(* C4 *)

\* C4: operator<(l, r) is true exactly when the live content of l is
\* lexicographically less than that of r: the first differing element
\* decides, and a strict prefix is less.
C4_LessIsLexicographic ==
    [][op'.name = "Compare" /\ ~op'.fault =>
       \A l \in Vecs, r \in Vecs :
         CompareStep(l, r) =>
            (op'.cmp.lt <=> LexLess(Content(vec[l]), Content(vec[r])))]_vars

\* The longer vector compared less: its first element decided.
C4_Witness ==
    /\ op.name = "Compare" /\ ~op.fault
    /\ Content(vec["a"]) = <<0, 1>>
    /\ Content(vec["b"]) = <<1>>
    /\ op.cmp.lt

-----------------------------------------------------------------------------
(* C5 *)

\* C5: PushBack on a vector with live content s, when it returns, leaves
\* size |s| + 1 and the live content s followed by the pushed value; k calls
\* in a row therefore append k values in push order.
C5_PushBackAppends ==
    [][op'.name = "PushBack" /\ ~op'.bad_alloc =>
       \A t \in Vecs, x \in Values :
         PushBackStep(t, x) \/ PushBackRvStep(t, x)
         => /\ vec'[t].size_ = vec[t].size_ + 1
            /\ Content(vec'[t]) = Append(Content(vec[t]), x)]_vars

-----------------------------------------------------------------------------
(* C6 *)

\* C6: Insert at offset p in [0, size], when it returns, places the value
\* before the element at p and keeps the order of the others, adds 1 to the
\* size, returns begin + p, and makes the capacity 1 if it was 0, twice the
\* capacity if the vector was full, and leaves it otherwise.
C6_InsertPlacesValue ==
    [][op'.name = "Insert" /\ ~op'.bad_alloc =>
       \A t \in Vecs, p \in PosRange, x \in Values :
         /\ 0 <= p /\ p <= vec[t].size_
         /\ InsertStep(t, p, x) \/ InsertRvStep(t, p, x)
         => /\ ~op'.threw
            /\ Content(vec'[t]) = InsertAt(Content(vec[t]), p, x)
            /\ vec'[t].size_ = vec[t].size_ + 1
            /\ op'.ret = p
            /\ vec'[t].capacity_ =
                 IF vec[t].capacity_ = 0 THEN 1
                 ELSE IF vec[t].size_ = vec[t].capacity_ THEN 2 * vec[t].capacity_
                 ELSE vec[t].capacity_]_vars

-----------------------------------------------------------------------------
(* C7 *)

-----------------------------------------------------------------------------
(* C8 *)

\* C8: At with index >= size, Insert with an offset outside [0, size] and
\* Erase with an offset outside [0, size) throw and leave both vectors as
\* they were (no such call ends in any other way); At with index < size
\* does not throw and returns the element operator[] returns.
C8_RangeErrorsLeaveState ==
    [][/\ op'.name = "At" =>
          \A t \in Vecs, i \in IndexRange :
            AtStep(t, i) =>
               IF i >= vec[t].size_
               THEN op'.threw /\ vec' = vec
               ELSE /\ ~op'.threw
                    /\ op'.ret = Index(vec[t], i)
                    /\ op'.ret = Content(vec[t])[i + 1]
       /\ op'.name = "Insert" /\ ~(op'.threw /\ vec' = vec) =>
          \A t \in Vecs, p \in PosRange, x \in Values :
            p < 0 \/ p > vec[t].size_
            => ~(InsertStep(t, p, x) \/ InsertRvStep(t, p, x))
       /\ op'.name = "Erase" /\ ~(op'.threw /\ vec' = vec) =>
          \A t \in Vecs, p \in PosRange :
            p < 0 \/ p >= vec[t].size_
            => ~EraseStep(t, p)]_vars

\* Erase threw on a vector whose only position is end().
C8_Witness ==
    /\ op.name = "Erase" /\ op.threw
    /\ vec["a"].size_ = 0 /\ vec["a"].capacity_ = 2
    /\ vec["b"].size_ = 0 /\ vec["b"].capacity_ = 0

-----------------------------------------------------------------------------
(* C9 *)

\* What a caller reads of v: its size, its capacity and its live content.
Visible(v) ==
    [size |-> v.size_, capacity |-> v.capacity_, content |-> Content(v)]

\* A call that changes vector t alone.
MutatorStep(t) ==
    \/ \E x \in Values : PushBackStep(t, x) \/ PushBackRvStep(t, x)
    \/ \E p \in PosRange, x \in Values : InsertStep(t, p, x) \/ InsertRvStep(t, p, x)
    \/ \E p \in PosRange : EraseStep(t, p)
    \/ PopBackStep(t)
    \/ ClearStep(t)
    \/ \E n \in SizeRange : ResizeStep(t, n) \/ ReserveStep(t, n)
    \/ \E i \in IndexRange, x \in Values : AssignStep(t, i, x)

MutatorNames ==
    {"PushBack", "Insert", "Erase", "PopBack", "Clear", "Resize", "Reserve",
     "Assign"}

\* C9: copy construction and copy assignment, when they return, give the
\* target the size, the capacity and the live content of the source and
\* leave the source alone;
\* self-assignment changes nothing; and a call that then mutates either
\* vector leaves the size, the capacity and the content of the other one
\* unchanged.
C9_CopyIsIndependent ==
    [][/\ op'.name \in {"CopyCtor", "CopyAssign"} /\ ~op'.bad_alloc =>
          \A t \in Vecs, o \in Vecs :
            CopyCtorStep(t, o) \/ CopyAssignStep(t, o)
            => /\ Visible(vec'[t]) = Visible(vec[o])
               /\ vec'[o] = vec[o]
       /\ op.name \in {"CopyCtor", "CopyAssign"} /\ op'.name \in MutatorNames =>
          \A t \in Vecs :
            MutatorStep(t)
            => Visible(vec'[Other(t)]) = Visible(vec[Other(t)])]_vars

-----------------------------------------------------------------------------
(* C10 *)

\* Every PushBack, Insert and Resize on v does what it does on a
\* default-constructed vector, inside the buffer.
Reusable(v) ==
    /\ \A x \in Values :
         /\ ~PushBackOob(v)
         /\ Visible(PushBack(v, x)) = Visible(PushBack(DefaultCtor, x))
         /\ Visible(PushBackRv(v, x)) = Visible(PushBackRv(DefaultCtor, x))
    /\ \A p \in PosRange, x \in Values :
         /\ InsertThrows(v, p) = InsertThrows(DefaultCtor, p)
         /\ ~InsertThrows(v, p) =>
              /\ ~InsertOob(v)
              /\ Visible(Insert(v, p, x)) = Visible(Insert(DefaultCtor, p, x))
              /\ Visible(InsertRv(v, p, x)) = Visible(InsertRv(DefaultCtor, p, x))
    /\ \A n \in SizeRange :
         /\ ~ResizeOob(v, n)
         /\ Visible(Resize(v, n)) = Visible(Resize(DefaultCtor, n))

\* C10: after move construction or move assignment between two different
\* vectors the source has size 0 and capacity 0 and can be used again like
\* a default-constructed vector, and the target has the size, the capacity
\* and the live content the source had, whatever the target held before.
C10_MoveEmptiesSource ==
    [][op'.name \in {"MoveCtor", "MoveAssign"} =>
       \A t \in Vecs, o \in Vecs :
         /\ t # o
         /\ MoveCtorStep(t, o) \/ MoveAssignStep(t, o)
         => /\ vec'[o].size_ = 0
            /\ vec'[o].capacity_ = 0
            /\ Visible(vec'[t]) = Visible(vec[o])
            /\ Reusable(vec'[o])]_vars

\* b = move(a) with b holding a one-cell buffer: a is empty and keeps that
\* buffer, b has the two elements of a.
C10_Witness ==
    /\ op.name = "MoveAssign"
    /\ vec["a"].size_ = 0 /\ vec["a"].capacity_ = 0 /\ vec["a"].alloc = 1
    /\ vec["b"].size_ = 2 /\ vec["b"].capacity_ = 2
    /\ Content(vec["b"]) = <<0, 1>>

-----------------------------------------------------------------------------
(* C11 *)

-----------------------------------------------------------------------------
(* C12 *)

\* s cut to n elements, or extended to n elements with Type().
RECURSIVE Resized(_, _)
Resized(s, n) ==
    IF n <= Len(s) THEN SubSeq(s, 1, n) ELSE Resized(Append(s, Default), n)

\* C12: Resize(n) that returns, on a vector of size s and capacity c, makes
\* the size n; the elements [0, min(s, n)) stay and the elements [s, n) are
\* Type(), whatever the cells held; the capacity stays c when n <= c and
\* becomes max(n, 2 * c) otherwise.
C12_ResizeSetsSizeAndFills ==
    [][op'.name = "Resize" /\ ~op'.bad_alloc =>
       \A t \in Vecs, n \in SizeRange :
         ResizeStep(t, n) =>
            /\ vec'[t].size_ = n
            /\ Content(vec'[t]) = Resized(Content(vec[t]), n)
            /\ vec'[t].capacity_ =
                 IF n <= vec[t].capacity_ THEN vec[t].capacity_
                 ELSE Max(n, 2 * vec[t].capacity_)]_vars

-----------------------------------------------------------------------------
(* C13 *)

\* The smallest power of two that is >= n, from p on.
RECURSIVE CeilPow2From(_, _)
CeilPow2From(p, n) == IF p >= n THEN p ELSE CeilPow2From(2 * p, n)

CeilPow2(n) == CeilPow2From(1, n)

RECURSIVE FloorLog2(_)
FloorLog2(n) == IF n <= 1 THEN 0 ELSE 1 + FloorLog2(n \div 2)

\* C13: a PushBack that returns leaves the capacity when size < capacity
\* and makes it max(2 * capacity, 1) when size = capacity; after n >= 1
\* PushBack calls on a default-constructed vector the capacity is the
\* smallest power of two >= n, so at least n, and it has changed at most
\* floor(log2(n)) + 2 times.
C13_PushBackGrowth ==
    [][op'.name = "PushBack" /\ ~op'.bad_alloc =>
       \A x \in Values :
         RunPushBackStep(x) \/ RunPushBackRvStep(x) =>
            /\ vec'["a"].capacity_ =
                 IF vec["a"].size_ < vec["a"].capacity_ THEN vec["a"].capacity_
                 ELSE Max(2 * vec["a"].capacity_, 1)
            /\ run'.from = "DefaultCtor" =>
                 /\ run'.pushes >= 1
                 /\ vec'["a"].size_ = run'.pushes
                 /\ vec'["a"].capacity_ = CeilPow2(run'.pushes)
                 /\ vec'["a"].capacity_ >= run'.pushes
                 /\ run'.changes <= FloorLog2(run'.pushes) + 2]_vars

\* The fifth PushBack on a default-constructed vector grew it from 4 cells
\* to 8: the fourth change of capacity.
C13_Witness ==
    /\ op.name = "PushBack" /\ ~op.bad_alloc
    /\ run.from = "DefaultCtor" /\ run.pushes = 5 /\ run.changes = 4
    /\ vec["a"].size_ = 5 /\ vec["a"].capacity_ = 8

-----------------------------------------------------------------------------
(* C14 *)

\* C14: for a vector with live content s and p in [0, |s|], Insert at p
\* returns a position it, and Erase(it) on the vector Insert left then
\* succeeds and leaves size |s| and live content s, whichever branch Insert
\* took.  Erase(vec'[t], op'.ret) is the vector the Erase step on the
\* state after the Insert yields.
C14_InsertEraseRoundTrip ==
    [][op'.name = "Insert" /\ ~op'.bad_alloc =>
       \A t \in Vecs, p \in PosRange, x \in Values :
         /\ 0 <= p /\ p <= vec[t].size_
         /\ InsertStep(t, p, x) \/ InsertRvStep(t, p, x)
         => /\ ~op'.threw /\ ~op'.fault
            /\ ~EraseThrows(vec'[t], op'.ret)
            /\ Erase(vec'[t], op'.ret).size_ = vec[t].size_
            /\ Content(Erase(vec'[t], op'.ret)) = Content(vec[t])]_vars

-----------------------------------------------------------------------------
(* C15 *)

-----------------------------------------------------------------------------
(* C16 *)

GrowthNames == {"Reserve", "PushBack", "Insert", "Resize", "CopyAssign"}

\* C16: when the allocation of a growing call (Reserve, PushBack on a full
\* vector, Insert on a full or zero-capacity vector, Resize beyond the
\* capacity, copy assignment) fails, the call ends with the error and the
\* size, the capacity, the live content and the buffer of every vector are
\* what they were before the call.
C16_BadAllocLeavesState ==
    [][op'.bad_alloc =>
         /\ op'.name \in GrowthNames
         /\ ~op'.threw /\ ~op'.fault
         /\ \A v \in Vecs :
              /\ vec'[v].size_ = vec[v].size_
              /\ vec'[v].capacity_ = vec[v].capacity_
              /\ Content(vec'[v]) = Content(vec[v])
              /\ vec'[v].arrayPtr_ = vec[v].arrayPtr_
              /\ vec'[v].alloc = vec[v].alloc]_vars

\* Resize beyond the capacity of a full one-element vector failed.
C16_Witness ==
    /\ op.name = "Resize" /\ op.bad_alloc
    /\ vec["a"].size_ = 1 /\ vec["a"].capacity_ = 1
    /\ Content(vec["a"]) = <<1>>

-----------------------------------------------------------------------------
(* C17 *)

\* C17: PushBack, Insert, Erase, PopBack, Clear, Resize and Reserve never
\* lower a capacity; Clear makes the size 0 and leaves the capacity; PopBack
\* changes nothing on an empty vector and otherwise takes 1 from the size
\* and leaves the capacity and the elements [0, size - 1).
C17_CapacityNeverShrinks ==
    [][/\ op'.name \in {"PushBack", "Insert", "Erase", "PopBack", "Clear",
                        "Resize", "Reserve"} =>
          \A v \in Vecs : vec'[v].capacity_ >= vec[v].capacity_
       /\ op'.name = "Clear" =>
          \A t \in Vecs :
            ClearStep(t) =>
               /\ vec'[t].size_ = 0
               /\ vec'[t].capacity_ = vec[t].capacity_
       /\ op'.name = "PopBack" =>
          \A t \in Vecs :
            PopBackStep(t) =>
               IF vec[t].size_ = 0
               THEN vec'[t] = vec[t]
               ELSE /\ vec'[t].size_ = vec[t].size_ - 1
                    /\ vec'[t].capacity_ = vec[t].capacity_
                    /\ Content(vec'[t]) =
                         SubSeq(Content(vec[t]), 1, vec[t].size_ - 1)]_vars

\* A full two-element vector was cleared: the capacity and the cells stay.
C17_Witness ==
    /\ op.name = "Clear"
    /\ vec["a"].size_ = 0 /\ vec["a"].capacity_ = 2
    /\ vec["a"].arrayPtr_ = <<1, 1>>

-----------------------------------------------------------------------------
(* C18 *)

\* C18: for every pair (l, r) of vectors exactly one of l < r, l == r,
\* l > r is true; l > r iff r < l; l <= r iff not l > r; l >= r iff not
\* l < r.
C18_ComparisonsConsistent ==
    [][op'.name = "Compare" /\ ~op'.fault =>
       \A l \in Vecs, r \in Vecs :
         CompareStep(l, r) =>
            /\ Cardinality({k \in {"lt", "eq", "gt"} : op'.cmp[k]}) = 1
            /\ op'.cmp.gt <=> OpLt(vec[r], vec[l])
            /\ op'.cmp.le <=> ~op'.cmp.gt
            /\ op'.cmp.ge <=> ~op'.cmp.lt]_vars

-----------------------------------------------------------------------------
(* C19 *)

\* C19: no call made within its contract reads or writes a cell at or
\* past the allocated length of the buffer it touches.
C19_NoAccessPastAllocation == ~ub

====
